---------------------------- MODULE Spec2Model ----------------------------
(***************************************************************************)
(* Model of exporter/node_writer.py: the node section writer of the KN5    *)
(* exporter.  The scene (blend_data.objects), the node setting rules and   *)
(* the material resolver are the inputs; the output is the sequence of     *)
(* node records appended to the file, the warning list and the exception   *)
(* (if any) that aborted the export.                                       *)
(*                                                                         *)
(* Python indices are 0-based and are kept 0-based wherever they are data  *)
(* (vertex indices written to the file); TLA+ sequences are 1-based, so    *)
(* s[i] of Python is At(s, i) here.                                        *)
(***************************************************************************)
EXTENDS Integers, Sequences, FiniteSets, TLC

VARIABLES
    objects,            \* context.blend_data.objects, in host order
    node_settings,      \* NodeWriter.node_settings: list of NodeSettings
    material_positions, \* material_writer.material_positions: name -> id
    fault,              \* which host call fails while an object is evaluated
    file,               \* the node records written so far
    warnings,           \* the warning sink
    error,              \* the exception that left the last call, or NoError
    held,               \* objects whose to_mesh() data is not yet cleared
    divided_meshes,     \* result of _split_object_by_materials
    new_meshes,         \* result of _split_meshes_for_vertex_limit
    pc                  \* "input" while the scene is set up, then "done"

vars == << objects, node_settings, material_positions, fault, file, warnings,
           error, held, divided_meshes, new_meshes, pc >>

---------------------------------------------------------------------------
(* Bounds of the model. *)

\* the vertex limit of _split_meshes_for_vertex_limit and _write_mesh
\* (2**16 in the source), scaled down so that a mesh can exceed it
limit == 4
\* objects in the scene (hierarchy specification)
MaxObjects == 3
\* triangles of the mesh under evaluation (splitter specification)
MaxTriangles == 2
\* loops (face corners) of the mesh under evaluation (geometry specification)
MaxLoops == 6
\* mesh objects and node setting rules (scene specification)
MaxSceneObjects == 2
MaxRules == 2

---------------------------------------------------------------------------
(* Helpers for sequences. *)

At(s, i) == s[i + 1]

Range(s) == { s[i] : i \in 1..Len(s) }

StartsWith(name, prefix) ==
    /\ Len(name) >= Len(prefix)
    /\ \A i \in 1..Len(prefix) : name[i] = prefix[i]

NoError == [kind |-> "none", name |-> <<>>]

Raise(kind, name) == [kind |-> kind, name |-> name]

---------------------------------------------------------------------------
(* UvVertex and Mesh (lines 49-73). *)

\* UvVertex.__init__
UvVertex(co, normal, uv, tangent) ==
    [co |-> co, normal |-> normal, uv |-> uv, tangent |-> tangent]

\* UvVertex.__eq__ comparing the tangent as well
UvVertexEq_WithTangent(a, b) ==
    /\ a.co = b.co
    /\ a.normal = b.normal
    /\ a.uv = b.uv
    /\ a.tangent = b.tangent

\* UvVertex.__eq__ (and __hash__, which reads the same three fields): the
\* tangent is not compared
UvVertexEq(a, b) ==
    /\ a.co = b.co
    /\ a.normal = b.normal
    /\ a.uv = b.uv

\* Mesh.__init__
Mesh(material_id, vertices, indices) ==
    [material_id |-> material_id, vertices |-> vertices, indices |-> indices]

---------------------------------------------------------------------------
(* _split_object_by_materials (lines 283-350).                             *)
(*                                                                         *)
(* The dict `vertices` is a sequence of items <<key, value>> in insertion  *)
(* order (Python dicts keep insertion order and keep the first key object  *)
(* when an equal key is looked up again).                                  *)

\* `vertex in vertices`
DictHas(vertices, vertex) ==
    \E i \in 1..Len(vertices) : UvVertexEq(vertices[i][1], vertex)

\* `vertices[vertex]`
DictGet(vertices, vertex) ==
    LET i == CHOOSE j \in 1..Len(vertices) : UvVertexEq(vertices[j][1], vertex)
    IN  vertices[i][2]

\* lines 337-339: insert the vertex under a fresh index unless it is there
DictInsert(vertices, vertex) ==
    IF ~DictHas(vertices, vertex)
    THEN Append(vertices, <<vertex, Len(vertices)>>)
    ELSE vertices

\* lines 326-336: the UvVertex of one loop.  `co` and `normal` stand for the
\* converted world position and normal; the UV layer's V is negated.
LoopVertex(loop) ==
    UvVertex(loop.co, loop.normal, <<loop.uv[1], -loop.uv[2]>>, loop.tangent)

\* lines 324-341: the loops of one triangle, from loop k on
RECURSIVE FaceLoops(_, _, _, _)
FaceLoops(loops, k, vertices, face_indices) ==
    IF k > Len(loops)
    THEN [vertices |-> vertices, face_indices |-> face_indices]
    ELSE LET vertex == LoopVertex(loops[k])
             vs == DictInsert(vertices, vertex)
         IN  FaceLoops(loops, k + 1, vs, Append(face_indices, DictGet(vs, vertex)))

\* the indices of a face in loop order, without the (1, 2, 0) reordering
FaceIndices_LoopOrder(face_indices) ==
    << At(face_indices, 0), At(face_indices, 1), At(face_indices, 2) >>
    \o (IF Len(face_indices) = 4
        THEN << At(face_indices, 0), At(face_indices, 2), At(face_indices, 3) >>
        ELSE << >>)

\* lines 342-344: the indices one face contributes
FaceIndices(face_indices) ==
    << At(face_indices, 1), At(face_indices, 2), At(face_indices, 0) >>
    \o (IF Len(face_indices) = 4
        THEN << At(face_indices, 2), At(face_indices, 3), At(face_indices, 0) >>
        ELSE << >>)

\* lines 319-344: the triangles of one material, from triangle k on
RECURSIVE GroupTriangles(_, _, _, _, _)
GroupTriangles(mesh_triangles, material_index, k, vertices, indices) ==
    IF k > Len(mesh_triangles)
    THEN [vertices |-> vertices, indices |-> indices]
    ELSE IF material_index # mesh_triangles[k].material_index
    THEN GroupTriangles(mesh_triangles, material_index, k + 1, vertices, indices)
    ELSE LET f == FaceLoops(mesh_triangles[k].loops, 1, vertices, << >>)
         IN  GroupTriangles(mesh_triangles, material_index, k + 1,
                            f.vertices, indices \o FaceIndices(f.face_indices))

\* line 345: the keys of the dict ordered by their value.  Values are
\* 0, 1, 2, ... in insertion order, so the order is found by looking each
\* value up.
SortedKeys(vertices) ==
    [ i \in 1..Len(vertices) |->
        LET j == CHOOSE j \in 1..Len(vertices) : vertices[j][2] = i - 1
        IN  vertices[j][1] ]

\* lines 317-347 for one material index, the resolver lookup excluded
MaterialGroup(mesh_triangles, material_index) ==
    LET g == GroupTriangles(mesh_triangles, material_index, 1, << >>, << >>)
    IN  [vertices |-> SortedKeys(g.vertices), indices |-> g.indices]

\* line 309
UsedMaterials(mesh_triangles) ==
    { mesh_triangles[k].material_index : k \in 1..Len(mesh_triangles) }

\* lines 310-347: the loop over used_materials (small ints of a Python set
\* iterate in ascending order), from material index m on.  The result is
\* the list of meshes and the exception that ended the loop, if any.
RECURSIVE MaterialLoop(_, _, _, _, _)
MaterialLoop(obj, positions, m, last, meshes) ==
    IF m > last
    THEN [meshes |-> meshes, error |-> NoError]
    ELSE IF m \notin UsedMaterials(obj.triangles)
    THEN MaterialLoop(obj, positions, m + 1, last, meshes)
    ELSE IF m >= Len(obj.materials)
    THEN [meshes |-> << >>, error |-> Raise("IndexError", obj.name)]
    ELSE IF At(obj.materials, m).is_none
    THEN [meshes |-> << >>, error |-> Raise("MaterialSlotEmpty", obj.name)]
    ELSE IF StartsWith(At(obj.materials, m).name, <<"_", "_">>)
    THEN [meshes |-> << >>, error |-> Raise("MaterialIgnored", obj.name)]
    ELSE IF At(obj.materials, m).name \notin DOMAIN positions
    THEN [meshes |-> << >>, error |-> Raise("KeyError", At(obj.materials, m).name)]
    ELSE LET g == MaterialGroup(obj.triangles, m)
             material_id == positions[At(obj.materials, m).name]
         IN  MaterialLoop(obj, positions, m + 1, last,
                          Append(meshes, Mesh(material_id, g.vertices, g.indices)))

MaxOf(S) == IF S = {} THEN -1 ELSE CHOOSE x \in S : \A y \in S : y <= x

\* _split_object_by_materials(obj) for object number o.  flt names the host
\* call that fails for this object ("none": no call fails); hd is the set of
\* objects whose temporary mesh is held.  to_mesh() acquires the temporary
\* mesh (line 289); the bmesh triangulation (lines 291-295) runs before the
\* try block; everything from calc_loop_triangles on runs inside it, and the
\* finally clause (line 349) clears the temporary mesh.
split_object_by_materials(o, obj, positions, flt, hd) ==
    IF flt = "triangulate"
    THEN [meshes |-> << >>, error |-> Raise("HostError", obj.name),
          held |-> hd \cup {o}]
    ELSE IF flt = "calc_tangents"
    THEN [meshes |-> << >>, error |-> Raise("HostError", obj.name),
          held |-> hd \ {o}]
    ELSE IF obj.materials = << >>
    THEN [meshes |-> << >>, error |-> Raise("NoMaterial", obj.name),
          held |-> hd \ {o}]
    ELSE LET r == MaterialLoop(obj, positions, 0,
                               MaxOf(UsedMaterials(obj.triangles)), << >>)
         IN  [meshes |-> r.meshes, error |-> r.error, held |-> hd \ {o}]

---------------------------------------------------------------------------
(* _split_meshes_for_vertex_limit (lines 352-375).                         *)
(*                                                                         *)
(* The dict vertex_index_mapping is a sequence of items <<key, value>> in  *)
(* insertion order.                                                        *)

MapHas(mapping, face_index) ==
    \E i \in 1..Len(mapping) : mapping[i][1] = face_index

MapGet(mapping, face_index) ==
    LET i == CHOOSE j \in 1..Len(mapping) : mapping[j][1] = face_index
    IN  mapping[i][2]

\* mesh.indices[i:i+3]: a slice stops at the end of the list
Slice3(indices, i) ==
    [ k \in 1..(IF i + 3 <= Len(indices) THEN 3 ELSE Len(indices) - i) |->
        At(indices, i + k - 1) ]

RECURSIVE FaceMap(_, _, _, _)

\* FaceMap appending the source index instead of the new one
FaceMap_SourceIndex(face, k, mapping, new_indices) ==
    IF k > Len(face)
    THEN [mapping |-> mapping, new_indices |-> new_indices]
    ELSE LET m == IF ~MapHas(mapping, face[k])
                  THEN Append(mapping, <<face[k], Len(mapping)>>)
                  ELSE mapping
         IN  FaceMap(face, k + 1, m, Append(new_indices, face[k]))

\* lines 364-368: the indices of one face, from position k of the face on
FaceMap(face, k, mapping, new_indices) ==
    IF k > Len(face)
    THEN [mapping |-> mapping, new_indices |-> new_indices]
    ELSE LET m == IF ~MapHas(mapping, face[k])
                  THEN Append(mapping, <<face[k], Len(mapping)>>)
                  ELSE mapping
         IN  FaceMap(face, k + 1, m, Append(new_indices, MapGet(m, face[k])))

\* the closing test without the margin of 3
ChunkFull_NoMargin(mapping) == Len(mapping) >= limit

\* line 369: the test that closes a sub-mesh
ChunkFull(mapping) == Len(mapping) >= limit - 3

\* lines 361-370: the for loop over range(start_index, len(mesh.indices), 3),
\* from i on.  start_index is i + 3 after the iteration for i.
RECURSIVE ChunkLoop(_, _, _, _)
ChunkLoop(mesh, i, mapping, new_indices) ==
    IF i >= Len(mesh.indices)
    THEN [mapping |-> mapping, new_indices |-> new_indices, start_index |-> i]
    ELSE LET f == FaceMap(Slice3(mesh.indices, i), 1, mapping, new_indices)
         IN  IF ChunkFull(f.mapping)
             THEN [mapping |-> f.mapping, new_indices |-> f.new_indices,
                   start_index |-> i + 3]
             ELSE ChunkLoop(mesh, i + 3, f.mapping, f.new_indices)

\* line 371: the source vertices in the order of their new index
ChunkVerts(mesh, mapping) ==
    [ i \in 1..Len(mapping) |->
        LET j == CHOOSE j \in 1..Len(mapping) : mapping[j][2] = i - 1
        IN  At(mesh.vertices, mapping[j][1]) ]

\* lines 358-372: the while loop, from start_index on
RECURSIVE SplitLoop(_, _, _)
SplitLoop(mesh, start_index, out) ==
    IF ~(start_index < Len(mesh.indices))
    THEN out
    ELSE LET c == ChunkLoop(mesh, start_index, << >>, << >>)
         IN  SplitLoop(mesh, c.start_index,
                       Append(out, Mesh(mesh.material_id,
                                        ChunkVerts(mesh, c.mapping),
                                        c.new_indices)))

\* lines 356-374: one mesh of divided_meshes
SplitMesh(mesh) ==
    IF Len(mesh.vertices) > limit
    THEN SplitLoop(mesh, 0, << >>)
    ELSE << mesh >>

\* _split_meshes_for_vertex_limit(divided_meshes), from mesh k on
RECURSIVE SplitFrom(_, _)
SplitFrom(meshes, k) ==
    IF k > Len(meshes) THEN << >>
    ELSE SplitMesh(meshes[k]) \o SplitFrom(meshes, k + 1)

split_meshes_for_vertex_limit(meshes) == SplitFrom(meshes, 1)

---------------------------------------------------------------------------
(* NodeProperties and NodeSettings (lines 38-46, 76-104). *)

NODE_SETTINGS ==
    { "lodIn", "lodOut", "layer", "castShadows", "visible", "transparent",
      "renderable" }

\* NodeProperties.__init__: the defaults, then the object's ac_properties
\* for every setting the object carries (none when it has no ac_properties)
NodeProperties(obj) ==
    LET defaults == [lodIn |-> 0, lodOut |-> 1000, layer |-> 0,
                     castShadows |-> TRUE, visible |-> TRUE,
                     transparent |-> FALSE, renderable |-> TRUE]
    IN  [ s \in NODE_SETTINGS |->
            IF s \in DOMAIN obj.ac_properties
            THEN obj.ac_properties[s] ELSE defaults[s] ]

\* NodeSettings.__init__: the compiled pattern and the settings the rule
\* names.  A pattern is represented by the set of object names it matches.
NodeSettings(node_key, settings) ==
    [node_regexp |-> node_key, settings |-> settings]

\* NodeSettings.apply_settings_to_node
apply_settings_to_node(node_setting, node_properties) ==
    [ s \in NODE_SETTINGS |->
        IF s \in DOMAIN node_setting.settings
        THEN node_setting.settings[s] ELSE node_properties[s] ]

\* lines 213-214: every node setting applied in list order, from rule k on
RECURSIVE ApplyNodeSettings(_, _, _)
ApplyNodeSettings(settings, k, node_properties) ==
    IF k > Len(settings) THEN node_properties
    ELSE ApplyNodeSettings(settings, k + 1,
                           apply_settings_to_node(settings[k], node_properties))

---------------------------------------------------------------------------
(* The scene as the writer reads it. *)

None == 0

\* a material id that `is None` (line 241)
NoMaterialId == -1

Excluded(name) == StartsWith(name, <<"_", "_">>)

\* obj.children: the objects whose parent is o, in host order
Children(o) ==
    SelectSeq([i \in 1..Len(objects) |-> i], LAMBDA c : objects[c].parent = o)

\* names of well-known engine objects (utils/constants.py)
ASSETTO_CORSA_OBJECTS == { <<"A", "C", "_", "P", "I", "T">> }

\* _is_ac_object
is_ac_object(name) == name \in ASSETTO_CORSA_OBJECTS

\* _any_child_is_mesh
RECURSIVE any_child_is_mesh(_)
any_child_is_mesh(o) ==
    \E c \in Range(Children(o)) :
        objects[c].type \in {"MESH", "CURVE"} \/ any_child_is_mesh(c)

\* line 141: sorted(objects, key=len(children)).  The sort is stable: the
\* objects with n children, in host order, for n = 0, 1, 2, ...
RECURSIVE SortedFrom(_)
SortedFrom(n) ==
    IF n > Len(objects) THEN << >>
    ELSE SelectSeq([i \in 1..Len(objects) |-> i],
                   LAMBDA o : Len(Children(o)) = n)
         \o SortedFrom(n + 1)

SortedObjects == SortedFrom(0)

---------------------------------------------------------------------------
(* The writer (lines 137-250).  A writer state ws holds the file, the      *)
(* warnings, the pending exception and the held temporary meshes; once an  *)
(* exception is pending nothing more is executed.  Every record carries    *)
(* the number of the object it was written for (0: the synthetic root).    *)

Identity == [kind |-> "identity", of |-> None]

\* _write_base_node_data
write_base_node_data(ws, o, node_data) ==
    [ws EXCEPT !.file = Append(@,
        [class |-> "Node", obj |-> o, name |-> node_data.name,
         childCount |-> node_data.childCount, active |-> node_data.active,
         transform |-> node_data.transform])]

\* lines 171-175 and 182-184: the child count of a base node
NumChildren(o) ==
    Cardinality({ c \in 1..Len(objects) :
        /\ objects[c].parent = o
        /\ ~Excluded(objects[c].name)
        /\ objects[c].visible })

\* _write_base_node(obj, node_name); o = None is the synthetic root
write_base_node(ws, o, node_name) ==
    LET warn == /\ o # None
                /\ ~is_ac_object(objects[o].name)
                /\ ~any_child_is_mesh(o)
        w == IF warn
             THEN [ws EXCEPT !.warnings =
                      Append(@, [kind |-> "UnknownLogicalObject",
                                 name |-> objects[o].name])]
             ELSE ws
    IN  write_base_node_data(w, o,
            [name |-> node_name, childCount |-> NumChildren(o), active |-> TRUE,
             transform |-> IF o = None THEN Identity
                           ELSE [kind |-> "matrix_local", of |-> o]])

\* _write_mesh(obj, mesh, node_properties).  The record is written field by
\* field: the vertex limit error leaves the fields before the vertex count
\* in the file.
write_mesh(ws, o, mesh, node_properties) ==
    IF ws.error # NoError THEN ws
    ELSE IF Len(mesh.vertices) > limit
    THEN [ws EXCEPT
            !.file = Append(@, [class |-> "MeshHead", obj |-> o,
                                name |-> objects[o].name, childCount |-> 0]),
            !.error = Raise("VertexLimit", objects[o].name)]
    ELSE [ws EXCEPT
            !.file = Append(@,
                [class |-> "Mesh", obj |-> o, name |-> objects[o].name,
                 childCount |-> 0, active |-> TRUE,
                 castShadows |-> node_properties["castShadows"],
                 visible |-> node_properties["visible"],
                 transparent |-> node_properties["transparent"],
                 vertices |-> mesh.vertices, indices |-> mesh.indices,
                 material |-> IF mesh.material_id = NoMaterialId THEN 0
                              ELSE mesh.material_id,
                 layer |-> node_properties["layer"],
                 lodIn |-> node_properties["lodIn"],
                 lodOut |-> node_properties["lodOut"],
                 renderable |-> node_properties["renderable"]]),
            !.warnings = IF mesh.material_id = NoMaterialId
                         THEN Append(@, [kind |-> "NoMaterial",
                                         name |-> objects[o].name])
                         ELSE @]

\* lines 215-216, from mesh k on
RECURSIVE WriteMeshes(_, _, _, _, _)
WriteMeshes(ws, o, meshes, k, node_properties) ==
    IF k > Len(meshes) THEN ws
    ELSE WriteMeshes(write_mesh(ws, o, meshes[k], node_properties),
                     o, meshes, k + 1, node_properties)

\* lines 202-211: whether the wrapping node is written
NeedsWrapper(obj, meshes) == obj.parent # None \/ Len(meshes) > 1

\* _write_mesh_node(obj)
write_mesh_node(ws, o) ==
    LET obj == objects[o]
        r == split_object_by_materials(o, obj, material_positions, fault[o],
                                       ws.held)
        meshes == split_meshes_for_vertex_limit(r.meshes)
        w0 == [ws EXCEPT !.held = r.held, !.error = r.error]
        w1 == IF NeedsWrapper(obj, meshes)
              THEN write_base_node_data(w0, o,
                      [name |-> obj.name, childCount |-> Len(meshes),
                       active |-> TRUE,
                       transform |-> IF obj.parent # None
                                     THEN [kind |-> "parent_world_inverted",
                                           of |-> obj.parent]
                                     ELSE Identity])
              ELSE w0
    IN  IF r.error # NoError THEN w0
        ELSE WriteMeshes(w1, o, meshes, 1,
                         ApplyNodeSettings(node_settings, 1, NodeProperties(obj)))

\* Exported without the test of the exclusion marker
Exported_NoMarker(obj) == obj.visible

\* line 148: whether _write_object writes the object at all
Exported(obj) == ~Excluded(obj.name) /\ obj.visible

\* _write_object(obj) and its loop over obj.children (lines 155-157)
RECURSIVE write_object(_, _)
RECURSIVE WriteChildren(_, _, _)

\* write_object with the test for children made after the mesh is written
write_object_LateCheck(ws, o) ==
    IF ws.error # NoError THEN ws
    ELSE IF ~Exported(objects[o]) THEN ws
    ELSE IF objects[o].type = "MESH" /\ Children(o) # << >>
    THEN [write_mesh_node(ws, o) EXCEPT
            !.error = Raise("MeshWithChildren", objects[o].name)]
    ELSE WriteChildren(IF objects[o].type = "MESH"
                       THEN write_mesh_node(ws, o)
                       ELSE write_base_node(ws, o, objects[o].name),
                       Children(o), 1)

write_object(ws, o) ==
    IF ws.error # NoError THEN ws
    ELSE IF ~Exported(objects[o]) THEN ws
    ELSE IF objects[o].type = "MESH" /\ Children(o) # << >>
    THEN [ws EXCEPT !.error = Raise("MeshWithChildren", objects[o].name)]
    ELSE WriteChildren(IF objects[o].type = "MESH"
                       THEN write_mesh_node(ws, o)
                       ELSE write_base_node(ws, o, objects[o].name),
                       Children(o), 1)

WriteChildren(ws, children, k) ==
    IF k > Len(children) THEN ws
    ELSE WriteChildren(IF objects[children[k]].visible
                       THEN write_object(ws, children[k])
                       ELSE ws,
                       children, k + 1)

\* lines 141-144, from position k of the sorted list on
RECURSIVE WriteTopLevel(_, _, _)
WriteTopLevel(ws, sorted, k) ==
    IF k > Len(sorted) THEN ws
    ELSE WriteTopLevel(IF objects[sorted[k]].parent = None
                          /\ objects[sorted[k]].visible
                       THEN write_object(ws, sorted[k])
                       ELSE ws,
                       sorted, k + 1)

\* NodeWriter.write()
write(ws) ==
    WriteTopLevel(write_base_node(ws, None, <<"B", "l", "e", "n", "d", "e", "r",
                                              "F", "i", "l", "e">>),
                  SortedObjects, 1)

---------------------------------------------------------------------------
(* Inputs. *)

Letters == << "a", "b", "c", "d", "e", "f" >>

\* the materials of the scene; the resolver knows m0 and m1 only
M0 == << "m", "0" >>
M1 == << "m", "1" >>
MX == << "m", "x" >>
Slot(name) == [is_none |-> FALSE, name |-> name]
EmptySlot == [is_none |-> TRUE, name |-> << >>]

Resolver == (M0 :> 1) @@ (M1 :> 2)

Loop(co, normal, uv, tangent) ==
    [co |-> co, normal |-> normal, uv |-> uv, tangent |-> tangent]

PlainLoop(co) == Loop(co, 0, <<0, 0>>, 0)

Triangle(material_index, loops) ==
    [material_index |-> material_index, loops |-> loops]

\* a triangle of three distinct plain vertices a, b, c
Tri(material_index, a, b, c) ==
    Triangle(material_index, << PlainLoop(a), PlainLoop(b), PlainLoop(c) >>)

\* geometries of a mesh object in the hierarchy: no face (no group), one
\* triangle (one group), one triangle for each of two materials (two groups)
Geometries ==
    { << >>,
      << Tri(0, 1, 2, 3) >>,
      << Tri(0, 1, 2, 3), Tri(1, 1, 2, 3) >> }

Object(name, parent, type, visible, triangles, materials, ac_properties) ==
    [name |-> name, parent |-> parent, type |-> type, visible |-> visible,
     triangles |-> triangles, materials |-> materials,
     ac_properties |-> ac_properties]

NoProperties == [s \in {} |-> 0]

\* the objects the host may add to the hierarchy as object number i:
\* a generic object (plain, hidden, named with one underscore, or named
\* with the exclusion marker), a mesh with one of the geometries, or a mesh
\* named with the exclusion marker
TreeObjects(i, parent) ==
    LET Named(prefix, type, visible, g) ==
            Object(prefix \o << Letters[i] >>, parent, type, visible, g,
                   << Slot(M0), Slot(M1) >>, NoProperties)
    IN  { Named(<< >>, "EMPTY", TRUE, << >>),
          Named(<< >>, "EMPTY", FALSE, << >>),
          Named(<< "_" >>, "EMPTY", TRUE, << >>),
          Named(<< "_", "_" >>, "EMPTY", TRUE, << >>),
          Named(<< "_", "_" >>, "MESH", TRUE, << Tri(0, 1, 2, 3) >>) }
        \cup { Named(<< >>, "MESH", TRUE, g) : g \in Geometries }

NewWriter == [file |-> << >>, warnings |-> << >>, error |-> NoError, held |-> {}]

---------------------------------------------------------------------------
(* The hierarchy specification: a scene of generic and mesh objects is     *)
(* set up object by object, then NodeWriter.write() runs.                  *)

InitCommon ==
    /\ objects = << >>
    /\ node_settings = << >>
    /\ material_positions = Resolver
    /\ fault = << >>
    /\ file = << >>
    /\ warnings = << >>
    /\ error = NoError
    /\ held = {}
    /\ divided_meshes = << >>
    /\ new_meshes = << >>
    /\ pc = "input"

\* the host adds an object under the root or under an existing object
AddObject ==
    /\ pc = "input"
    /\ Len(objects) < MaxObjects
    /\ \E parent \in 0..Len(objects) :
         \E ob \in TreeObjects(Len(objects) + 1, parent) :
            /\ objects' = Append(objects, ob)
            /\ fault' = Append(fault, "none")
    /\ UNCHANGED << node_settings, material_positions, file, warnings, error,
                    held, divided_meshes, new_meshes, pc >>

\* NodeWriter.write()
Export ==
    /\ pc = "input"
    /\ LET ws == write(NewWriter)
       IN  /\ file' = ws.file
           /\ warnings' = ws.warnings
           /\ error' = ws.error
           /\ held' = ws.held
    /\ pc' = "done"
    /\ UNCHANGED << objects, node_settings, material_positions, fault,
                    divided_meshes, new_meshes >>

NextTree == AddObject \/ Export

SpecTree == InitCommon /\ [][NextTree]_vars

---------------------------------------------------------------------------
(* The geometry specification: the faces of one mesh object are set up     *)
(* face by face, then _split_object_by_materials evaluates the object.     *)

\* the loops a face may have: a vertex, the same vertex with another
\* tangent, a vertex at another position, a vertex with another UV
GeomLoops ==
    { Loop(0, 0, <<0, 0>>, 0), Loop(0, 0, <<0, 0>>, 1),
      Loop(1, 0, <<0, 0>>, 0), Loop(0, 0, <<0, 1>>, 0) }

MeshObject ==
    Object(<< "a" >>, None, "MESH", TRUE, << >>, << Slot(M0), Slot(M1) >>,
           NoProperties)

InitGeom ==
    /\ objects = << MeshObject >>
    /\ node_settings = << >>
    /\ material_positions = Resolver
    /\ fault = << "none" >>
    /\ file = << >>
    /\ warnings = << >>
    /\ error = NoError
    /\ held = {}
    /\ divided_meshes = << >>
    /\ new_meshes = << >>
    /\ pc = "input"

RECURSIVE SumLoops(_, _)
SumLoops(triangles, k) ==
    IF k > Len(triangles) THEN 0
    ELSE Len(triangles[k].loops) + SumLoops(triangles, k + 1)

\* the host mesh gains a face of three or four loops
AddFace ==
    /\ pc = "input"
    /\ \E n \in {3, 4} :
         /\ SumLoops(objects[1].triangles, 1) + n <= MaxLoops
         /\ \E m \in {0, 1} :
              \E loops \in [1..n -> GeomLoops] :
                 objects' = [objects EXCEPT
                                ![1].triangles = Append(@, Triangle(m, loops))]
    /\ UNCHANGED << node_settings, material_positions, fault, file, warnings,
                    error, held, divided_meshes, new_meshes, pc >>

\* _split_object_by_materials(obj) for the object
Evaluate ==
    /\ pc = "input"
    /\ objects # << >>
    /\ LET r == split_object_by_materials(1, objects[1], material_positions,
                                          fault[1], held)
       IN  /\ divided_meshes' = r.meshes
           /\ error' = r.error
           /\ held' = r.held
    /\ pc' = "split"
    /\ UNCHANGED << objects, node_settings, material_positions, fault, file,
                    warnings, new_meshes >>

NextGeom == AddFace \/ Evaluate

SpecGeom == InitGeom /\ [][NextGeom]_vars

---------------------------------------------------------------------------
(* The splitter specification: a mesh of one material is set up triangle   *)
(* by triangle, evaluated, and handed to _split_meshes_for_vertex_limit.   *)
(* Vertices are compared for equality only, so the positions are numbered  *)
(* in the order in which they first appear.                                *)

MaxKeys == limit + 1

KeysUsed(triangles) ==
    { triangles[k].loops[j].co :
        k \in 1..Len(triangles), j \in 1..3 }

Fresh(used) ==
    IF Cardinality(used) < MaxKeys THEN { Cardinality(used) + 1 } ELSE {}

AddTriangle ==
    /\ pc = "input"
    /\ Len(objects[1].triangles) < MaxTriangles
    /\ LET u0 == KeysUsed(objects[1].triangles)
       IN  \E a \in u0 \cup Fresh(u0) :
             \E b \in (u0 \cup {a}) \cup Fresh(u0 \cup {a}) :
               \E c \in (u0 \cup {a, b}) \cup Fresh(u0 \cup {a, b}) :
                  objects' = [objects EXCEPT
                                 ![1].triangles = Append(@, Tri(0, a, b, c))]
    /\ UNCHANGED << node_settings, material_positions, fault, file, warnings,
                    error, held, divided_meshes, new_meshes, pc >>

\* _split_meshes_for_vertex_limit(divided_meshes)
Limit ==
    /\ pc = "split"
    /\ error = NoError
    /\ new_meshes' = split_meshes_for_vertex_limit(divided_meshes)
    /\ pc' = "done"
    /\ UNCHANGED << objects, node_settings, material_positions, fault, file,
                    warnings, error, held, divided_meshes >>

NextSplit == AddTriangle \/ Evaluate \/ Limit

SpecSplit == InitGeom /\ [][NextSplit]_vars

---------------------------------------------------------------------------
(* The scene specification: visible top-level mesh objects and node        *)
(* setting rules are set up, then NodeWriter.write() runs, or the first    *)
(* object alone is evaluated by _split_object_by_materials.                *)

\* the mesh objects the host may add as object number i, each with the host
\* call that fails while it is evaluated: a sound object of one or of two
\* material groups, an object with properties of its own, objects whose
\* material slots are unknown to the resolver, missing, empty or ignored,
\* and sound objects for which a host call fails
SceneObjects(i) ==
    LET Ob(g, materials, ac_properties) ==
            Object(<< Letters[i] >>, None, "MESH", TRUE, g, materials,
                   ac_properties)
        one == << Tri(0, 1, 2, 3) >>
        two == << Tri(0, 1, 2, 3), Tri(1, 1, 2, 3) >>
    IN  { << Ob(one, << Slot(M0), Slot(M1) >>, NoProperties), "none" >>,
          << Ob(two, << Slot(M0), Slot(M1) >>, NoProperties), "none" >>,
          << Ob(one, << Slot(M0) >>, [layer |-> 2]), "none" >>,
          << Ob(one, << Slot(MX) >>, NoProperties), "none" >>,
          << Ob(one, << >>, NoProperties), "none" >>,
          << Ob(one, << EmptySlot >>, NoProperties), "none" >>,
          << Ob(one, << Slot(<< "_", "_", "m" >>) >>, NoProperties), "none" >>,
          << Ob(one, << Slot(M0) >>, NoProperties), "triangulate" >>,
          << Ob(one, << Slot(M0) >>, NoProperties), "calc_tangents" >> }

\* the node setting rules of the settings file: a pattern (the set of the
\* object names it matches) and the settings the rule overrides
SceneRules ==
    { NodeSettings(node_key, settings) :
        node_key \in { {}, { << "a" >> }, { << "b" >> },
                       { << "a" >>, << "b" >> } },
        settings \in { [layer |-> 1], [castShadows |-> FALSE],
                       [layer |-> 3, lodOut |-> 500] } }

\* the host adds a top-level mesh object
AddSceneObject ==
    /\ pc = "input"
    /\ Len(objects) < MaxSceneObjects
    /\ \E s \in SceneObjects(Len(objects) + 1) :
          /\ objects' = Append(objects, s[1])
          /\ fault' = Append(fault, s[2])
    /\ UNCHANGED << node_settings, material_positions, file, warnings, error,
                    held, divided_meshes, new_meshes, pc >>

\* _init_node_settings: one NodeSettings per key of the settings file
AddRule ==
    /\ pc = "input"
    /\ Len(node_settings) < MaxRules
    /\ \E r \in SceneRules : node_settings' = Append(node_settings, r)
    /\ UNCHANGED << objects, material_positions, fault, file, warnings, error,
                    held, divided_meshes, new_meshes, pc >>

NextScene == AddSceneObject \/ AddRule \/ Export \/ Evaluate

SpecScene == InitCommon /\ [][NextScene]_vars

---------------------------------------------------------------------------
(* Reading the stream back.  A reader takes a record, then as many         *)
(* children as its child count says, each with its own children first.     *)

RECURSIVE PopClosed(_)
PopClosed(stack) ==
    IF stack # << >> /\ stack[Len(stack)][2] = 0
    THEN PopClosed(SubSeq(stack, 1, Len(stack) - 1))
    ELSE stack

\* the position of the record each record is read under (0: under none),
\* from record k on; stack holds <<position, children still to read>>
RECURSIVE ReadFrom(_, _, _, _)
ReadFrom(f, k, stack, parents) ==
    IF k > Len(f) THEN parents
    ELSE LET st == PopClosed(stack)
             par == IF st = << >> THEN 0 ELSE st[Len(st)][1]
             st2 == IF st = << >> THEN st
                    ELSE [st EXCEPT ![Len(st)] = << @[1], @[2] - 1 >>]
         IN  ReadFrom(f, k + 1, Append(st2, << k, f[k].childCount >>),
                      Append(parents, par))

ReadParents == ReadFrom(file, 1, << >>, << >>)

ChildrenRead(p) ==
    Cardinality({ q \in 1..Len(file) : ReadParents[q] = p })

RECURSIVE Descendants(_)
Descendants(o) ==
    UNION { {c} \cup Descendants(c) : c \in Range(Children(o)) }

RecordsOf(S) == { q \in 1..Len(file) : file[q].obj \in S }

Marked(o) ==
    /\ Len(objects[o].name) >= 2
    /\ objects[o].name[1] = "_"
    /\ objects[o].name[2] = "_"

---------------------------------------------------------------------------
(* C1: after an export that ended without a fatal error, every Node record *)
(* has exactly as many records read as its direct children as its child    *)
(* count field says, every Mesh record has child count 0, and only the     *)
(* first record is read under no record.                                   *)
C1_ChildCountAccounting ==
    (pc = "done" /\ error = NoError) =>
        \A p \in 1..Len(file) :
            /\ file[p].class = "Node" => ChildrenRead(p) = file[p].childCount
            /\ file[p].class = "Mesh" => file[p].childCount = 0
            /\ p > 1 => ReadParents[p] # 0

\* a visible top-level mesh without faces is counted by the root and
\* writes no record
C1_Counterexample_Witness ==
    /\ pc = "done"
    /\ error = NoError
    /\ \E o \in 1..Len(objects) :
         /\ objects[o].type = "MESH"
         /\ objects[o].parent = None
         /\ RecordsOf({o}) = {}
         /\ file[1].childCount > ChildrenRead(1)

---------------------------------------------------------------------------
(* The order in which the traversal of write() reaches the objects, were   *)
(* it never to abort: the visible top-level objects in the sorted order,   *)
(* each unmarked visible object followed by its visible children.          *)

RECURSIVE ReachOrder(_)
RECURSIVE ReachAll(_, _)
ReachOrder(o) ==
    IF Marked(o) \/ ~objects[o].visible THEN << >>
    ELSE << o >> \o ReachAll(Children(o), 1)

ReachAll(list, k) ==
    IF k > Len(list) THEN << >>
    ELSE ReachOrder(list[k]) \o ReachAll(list, k + 1)

TopLevel == SelectSeq(SortedObjects, LAMBDA o : objects[o].parent = None)

Reached == ReachAll(TopLevel, 1)

MeshWithChildren(o) == objects[o].type = "MESH" /\ Children(o) # << >>

\* the first position of order R that holds a mesh with children, or 0
FirstMeshWithChildren(R) ==
    IF \E k \in 1..Len(R) : MeshWithChildren(R[k])
    THEN CHOOSE k \in 1..Len(R) :
            /\ MeshWithChildren(R[k])
            /\ \A j \in 1..(k - 1) : ~MeshWithChildren(R[j])
    ELSE 0

(* C7: when the traversal reaches a mesh object that has a hierarchy       *)
(* child, the export ends with the error naming that object, the file      *)
(* holds no record of the object or of any of its descendants, and it      *)
(* holds records of the root and of objects reached earlier only.          *)
C7_MeshWithChildrenAborts ==
    pc = "done" =>
        LET R == Reached
            k == FirstMeshWithChildren(R)
        IN  k # 0 =>
              LET o == R[k]
                  before == {0} \cup { R[j] : j \in 1..(k - 1) }
              IN  /\ error = Raise("MeshWithChildren", objects[o].name)
                  /\ RecordsOf({o} \cup Descendants(o)) = {}
                  /\ \A q \in 1..Len(file) : file[q].obj \in before

\* the export aborted on a mesh with children after other objects had been
\* written, and objects were still to be reached
C7_Witness ==
    /\ pc = "done"
    /\ error.kind = "MeshWithChildren"
    /\ Len(file) >= 2
    /\ FirstMeshWithChildren(Reached) # 0
    /\ FirstMeshWithChildren(Reached) < Len(Reached)

(* C8: an object whose name begins with "__" and all its descendants have  *)
(* no record in the file, and the child count of the root and of every     *)
(* generic object's node counts the visible, unmarked children only.       *)
C8_ExcludedSubtreeSilent ==
    pc = "done" =>
        /\ \A o \in 1..Len(objects) :
             Marked(o) => RecordsOf({o} \cup Descendants(o)) = {}
        /\ \A q \in 1..Len(file) :
             (file[q].class = "Node"
                /\ (file[q].obj = 0 \/ objects[file[q].obj].type # "MESH"))
             => file[q].childCount =
                    Cardinality({ c \in 1..Len(objects) :
                        /\ objects[c].parent = file[q].obj
                        /\ ~Marked(c)
                        /\ objects[c].visible })

\* a marked visible object with a visible unmarked child sits under a
\* generic object whose node was written
C8_Witness ==
    /\ pc = "done"
    /\ error = NoError
    /\ \E o \in 1..Len(objects) :
         /\ Marked(o)
         /\ objects[o].visible
         /\ objects[o].parent # None
         /\ RecordsOf({objects[o].parent}) # {}
         /\ \E c \in Range(Children(o)) : objects[c].visible /\ ~Marked(c)

---------------------------------------------------------------------------
(* Material groups as the claims describe them.                            *)

\* the (position, normal, UV) a loop is written with: the UV layer's V is
\* sign-flipped
WrittenKey(loop) == << loop.co, loop.normal, << loop.uv[1], 0 - loop.uv[2] >> >>

KeyOfVertex(v) == << v.co, v.normal, v.uv >>

\* the faces of material index m, in the order of the traversal
FacesOf(m) ==
    SelectSeq(objects[1].triangles, LAMBDA t : t.material_index = m)

\* the loops of a list of faces, one after the other
RECURSIVE LoopsOf(_, _)
LoopsOf(faces, k) ==
    IF k > Len(faces) THEN << >>
    ELSE faces[k].loops \o LoopsOf(faces, k + 1)

\* the mesh built for material index m: meshes are appended in ascending
\* order of the material indices in use
GroupOf(m) ==
    divided_meshes[Cardinality({ n \in UsedMaterials(objects[1].triangles) :
                                    n <= m })]

FirstOccurrence(L, key) ==
    CHOOSE p \in 1..Len(L) :
        /\ WrittenKey(L[p]) = key
        /\ \A q \in 1..(p - 1) : WrittenKey(L[q]) # key

Evaluated == pc = "split" /\ error = NoError

(* C3: the vertex buffer of a material group holds exactly one entry per   *)
(* distinct (position, normal, UV) of the loops inserted, in the order of  *)
(* the first occurrence of each; an entry carries the tangent of the first *)
(* loop inserted with its key; every index is a position of the buffer and *)
(* every position of the buffer is indexed.                                *)
C3_VertexDeduplication ==
    Evaluated =>
        /\ Len(divided_meshes) = Cardinality(UsedMaterials(objects[1].triangles))
        /\ \A m \in UsedMaterials(objects[1].triangles) :
             LET g == GroupOf(m)
                 L == LoopsOf(FacesOf(m), 1)
                 n == Len(g.vertices)
             IN  /\ \A i, j \in 1..n :
                      KeyOfVertex(g.vertices[i]) = KeyOfVertex(g.vertices[j])
                        => i = j
                 /\ { KeyOfVertex(g.vertices[i]) : i \in 1..n }
                      = { WrittenKey(L[p]) : p \in 1..Len(L) }
                 /\ \A i, j \in 1..n :
                      i < j =>
                        FirstOccurrence(L, KeyOfVertex(g.vertices[i]))
                          < FirstOccurrence(L, KeyOfVertex(g.vertices[j]))
                 /\ \A i \in 1..n :
                      g.vertices[i].tangent
                        = L[FirstOccurrence(L, KeyOfVertex(g.vertices[i]))].tangent
                 /\ Range(g.indices) = 0..(n - 1)

\* a group of two faces in which a key comes back with another tangent
\* after another key was inserted
C3_Witness ==
    /\ Evaluated
    /\ \E m \in UsedMaterials(objects[1].triangles) :
         LET L == LoopsOf(FacesOf(m), 1)
         IN  /\ Len(FacesOf(m)) = 2
             /\ Len(GroupOf(m).vertices) >= 2
             /\ \E p, q \in 1..Len(L) :
                  /\ p + 1 < q
                  /\ WrittenKey(L[p]) = WrittenKey(L[q])
                  /\ L[p].tangent # L[q].tangent
                  /\ WrittenKey(L[p + 1]) # WrittenKey(L[p])

\* the position (0-based) of the buffer entry with the key of a loop
IndexOfLoop(g, loop) ==
    (CHOOSE i \in 1..Len(g.vertices) :
        KeyOfVertex(g.vertices[i]) = WrittenKey(loop)) - 1

\* what the faces contribute by the winding rule, from face k on
RECURSIVE WoundIndices(_, _, _)
WoundIndices(g, faces, k) ==
    IF k > Len(faces) THEN << >>
    ELSE LET l == faces[k].loops
         IN  << IndexOfLoop(g, l[2]), IndexOfLoop(g, l[3]), IndexOfLoop(g, l[1]) >>
             \o (IF Len(l) = 4
                 THEN << IndexOfLoop(g, l[3]), IndexOfLoop(g, l[4]),
                         IndexOfLoop(g, l[1]) >>
                 ELSE << >>)
             \o WoundIndices(g, faces, k + 1)

(* C4: the index list of a material group is, face after face in the order *)
(* of the traversal, the indices of loops (B, C, A) for a face (A, B, C)   *)
(* and of (B, C, A) then (C, D, A) for a face (A, B, C, D), and nothing    *)
(* else.                                                                   *)
C4_WindingOrder ==
    Evaluated =>
        \A m \in UsedMaterials(objects[1].triangles) :
            GroupOf(m).indices = WoundIndices(GroupOf(m), FacesOf(m), 1)

\* a group built from a face of four loops over three distinct vertices
C4_Witness ==
    /\ Evaluated
    /\ Len(objects[1].triangles) = 1
    /\ Len(objects[1].triangles[1].loops) = 4
    /\ objects[1].triangles[1].material_index = 1
    /\ Len(divided_meshes[1].vertices) = 3
    /\ Len(divided_meshes[1].indices) = 6

---------------------------------------------------------------------------
(* The vertex limit splitter as the claims describe it.  The mesh of the   *)
(* splitter specification has one material, so divided_meshes holds at     *)
(* most one group (the parent) and new_meshes holds what became of it.     *)

Split == pc = "done" /\ Len(divided_meshes) = 1

OverLimit(mesh) == Len(mesh.vertices) > limit

\* the vertices the indices of a mesh stand for
Resolved(mesh) ==
    [ i \in 1..Len(mesh.indices) |-> mesh.vertices[mesh.indices[i] + 1] ]

RECURSIVE ResolvedAll(_, _)
ResolvedAll(meshes, k) ==
    IF k > Len(meshes) THEN << >>
    ELSE Resolved(meshes[k]) \o ResolvedAll(meshes, k + 1)

---------------------------------------------------------------------------
(* The scene claims.                                                       *)

\* whether the pattern of a rule matches a name
Matches(node_setting, name) == name \in node_setting.node_regexp

\* the attributes of an object by the rule semantics: the attributes the
\* object starts with, overridden by the matching rules in declaration order
RECURSIVE MatchingSettings(_, _, _)
MatchingSettings(name, k, attributes) ==
    IF k > Len(node_settings) THEN attributes
    ELSE MatchingSettings(name, k + 1,
            IF Matches(node_settings[k], name)
            THEN [ s \in NODE_SETTINGS |->
                     IF s \in DOMAIN node_settings[k].settings
                     THEN node_settings[k].settings[s] ELSE attributes[s] ]
            ELSE attributes)

(* C5: the render attributes of every Mesh record are the object's default *)
(* attributes overridden by the node setting rules whose pattern matches   *)
(* the object's name, in declaration order; a rule whose pattern does not  *)
(* match the name changes none of them.                                    *)
C5_MatchingRulesOnly ==
    pc = "done" =>
        \A q \in 1..Len(file) :
            file[q].class = "Mesh" =>
                LET obj == objects[file[q].obj]
                    expected == MatchingSettings(obj.name, 1, NodeProperties(obj))
                IN  \A s \in NODE_SETTINGS : file[q][s] = expected[s]

\* the object uses a material slot whose name the resolver does not know
Unresolved(obj) ==
    \E m \in UsedMaterials(obj.triangles) :
        /\ m < Len(obj.materials)
        /\ ~At(obj.materials, m).is_none
        /\ ~Excluded(At(obj.materials, m).name)
        /\ At(obj.materials, m).name \notin DOMAIN material_positions

\* the object has none of the fatal material errors and no host call fails
\* while it is evaluated
Sound(o) ==
    /\ fault[o] = "none"
    /\ objects[o].materials # << >>
    /\ \A m \in UsedMaterials(objects[o].triangles) :
         /\ m < Len(objects[o].materials)
         /\ ~At(objects[o].materials, m).is_none
         /\ ~Excluded(At(objects[o].materials, m).name)

(* C6: when an object uses a material name the resolver has no entry for   *)
(* (and nothing else in the scene is fatal), the export ends without an    *)
(* error, the object's Mesh record is written with material 0, a warning   *)
(* for the object is in the warning sink, and the objects that follow have *)
(* their records.                                                          *)
C6_UnresolvedMaterialFallback ==
    (pc = "done" /\ \A o \in 1..Len(objects) : Sound(o)) =>
        \A o \in 1..Len(objects) :
            Unresolved(objects[o]) =>
                /\ error = NoError
                /\ \E q \in 1..Len(file) :
                     /\ file[q].class = "Mesh"
                     /\ file[q].obj = o
                     /\ file[q].material = 0
                /\ Cardinality({ w \in 1..Len(warnings) :
                        warnings[w] = [kind |-> "NoMaterial",
                                       name |-> objects[o].name] }) = 1
                /\ \A n \in (o + 1)..Len(objects) : RecordsOf({n}) # {}

(* C9: when a call of _split_object_by_materials has ended, normally or    *)
(* with an error, and when the export has ended, no object's temporary     *)
(* mesh is still held.                                                     *)
C9_TemporaryMeshReleased ==
    pc \in {"split", "done"} => held = {}

=============================================================================
